---- MODULE Spec2Model ----
(***************************************************************************)
(* Ingestion pipeline of rag_api_project: the upload endpoint, the         *)
(* background coordinator that resolves a Drive resource to file jobs, and *)
(* the per-file job (download, load, analyse, refine, chunk/embed,         *)
(* persist) with its temporary workspace.                                  *)
(*                                                                         *)
(* Text is a sequence of characters over a small alphabet: "nl" is a       *)
(* newline, "sp" a blank, "1" and "2" digits, "dot" a full stop, "txt" any *)
(* other ordinary character; "kw" stands for an article keyword ("Art."    *)
(* or "Artigo") and "chap" for a chapter keyword ("CAPITULO").             *)
(***************************************************************************)
EXTENDS Integers, Sequences, FiniteSets, TLC

\* ---------------------------------------------------------------- bounds
MaxFiles == 2

MaxPage == 2

\* ------------------------------------------------------------------ text
WS == {"sp", "nl"}

Digits == {"1", "2"}

NoneTok == <<"None">>

RECURSIVE LStrip(_)
LStrip(s) == IF s # <<>> /\ Head(s) \in WS THEN LStrip(Tail(s)) ELSE s

RECURSIVE RStrip(_)
RStrip(s) == IF s # <<>> /\ s[Len(s)] \in WS THEN RStrip(SubSeq(s, 1, Len(s) - 1)) ELSE s

Strip(s) == RStrip(LStrip(s))

RECURSIVE JoinNl(_)
JoinNl(parts) ==
    IF parts = <<>> THEN <<>>
    ELSE IF Len(parts) = 1 THEN parts[1]
    ELSE parts[1] \o <<"nl">> \o JoinNl(Tail(parts))

\* a run of n characters of text
TextOf(n) == [i \in 1..n |-> "txt"]

AtLineStart(s, p) == p = 1 \/ s[p - 1] = "nl"

\* the first position from q on whose character is not in S, one past the
\* end when there is none
SkipAll(s, q, S) ==
    LET stops == {k \in q..Len(s) : s[k] \notin S}
    IN IF stops = {} THEN (IF q > Len(s) THEN q ELSE Len(s) + 1)
       ELSE CHOOSE k \in stops : \A m \in stops : k <= m

\* \s* from q on
SkipWs(s, q) == SkipAll(s, q, WS)

\* .* from q on: the last position before the end of the line
EndOfLine(s, q) ==
    LET nls == {k \in q..Len(s) : s[k] = "nl"}
    IN IF nls = {} THEN (IF q > Len(s) THEN q - 1 ELSE Len(s))
       ELSE (CHOOSE k \in nls : \A m \in nls : k <= m) - 1

\* \d* from q on
SkipDigits(s, q) == SkipAll(s, q, Digits)

\* REGEX_ARTICLE = ^(Art\.|Artigo)\s+\d+\s*(\.\s*)?.*  (IGNORECASE, MULTILINE)
ArticleAt(s, p) ==
    /\ s[p] = "kw"
    /\ AtLineStart(s, p)
    /\ p + 1 <= Len(s)
    /\ s[p + 1] \in WS
    /\ SkipWs(s, p + 1) <= Len(s)
    /\ s[SkipWs(s, p + 1)] \in Digits

\* the match that starts at p: its last position and its two groups
REGEX_ARTICLE_match(s, p) ==
    LET q2 == SkipWs(s, SkipDigits(s, SkipWs(s, p + 1)))
        hasDot == q2 <= Len(s) /\ s[q2] = "dot"
        q3 == IF hasDot THEN SkipWs(s, q2 + 1) ELSE q2
    IN [end |-> EndOfLine(s, q3),
        g1 |-> <<"kw">>,
        g2 |-> IF hasDot THEN SubSeq(s, q2, q3 - 1) ELSE NoneTok]

REGEX_ARTICLE_search(s) == \E p \in 1..Len(s) : ArticleAt(s, p)

NextMatch(s, from) ==
    LET ps == {p \in from..Len(s) : ArticleAt(s, p)}
    IN IF ps = {} THEN 0 ELSE CHOOSE p \in ps : \A q \in ps : p <= q

\* re.split with a pattern that has capture groups: the text between the
\* matches, and for every match its groups (not the matched text).
RECURSIVE re_split_from(_, _)
re_split_from(s, from) ==
    LET p == NextMatch(s, from)
    IN IF p = 0 THEN << SubSeq(s, from, Len(s)) >>
       ELSE LET m == REGEX_ARTICLE_match(s, p)
            IN << SubSeq(s, from, p - 1), m.g1, m.g2 >> \o re_split_from(s, m.end + 1)

re_split(s) == re_split_from(s, 1)

\* REGEX_TITLE_OR_CHAPTER = ^\s*(TITULO|CAPITULO|SECAO)\s+.*?\s*$ : the
\* keyword after a line start and blanks only, followed by white space.
ChapterAt(s, p) ==
    /\ s[p] = "chap"
    /\ \E b \in 1..p : AtLineStart(s, b) /\ \A k \in b..(p - 1) : s[k] \in WS
    /\ p + 1 <= Len(s)
    /\ s[p + 1] \in WS

\* group(0).strip() of the first match, <<>> when there is none: \s+ takes
\* all the white space after the keyword, .*? the rest of that line.
REGEX_TITLE_OR_CHAPTER_search(s) ==
    LET ps == {p \in 1..Len(s) : ChapterAt(s, p)}
    IN IF ps = {} THEN <<>>
       ELSE LET p == CHOOSE x \in ps : \A y \in ps : x <= y
            IN Strip(SubSeq(s, p, EndOfLine(s, SkipWs(s, p + 1))))

\* re.search(r"\d+", article_marker): the first run of digits, <<>> if none
FirstNumber(s) ==
    LET ps == {p \in 1..Len(s) : s[p] \in Digits}
    IN IF ps = {} THEN <<>>
       ELSE LET p == CHOOSE x \in ps : \A y \in ps : x <= y
            IN SubSeq(s, p, SkipDigits(s, p) - 1)

\* f"Artigo {number}"
ArticleName(number) == <<"Artigo", "sp">> \o number

\* ------------------------------------------------------------- analyzer
UnidentifiedChapter == <<"Preambulo ou Secao Nao Identificada">>

\* 3a: the next token that is a valid marker (python index i is i - 1)
RECURSIVE FindMarker(_, _)
FindMarker(sections, i) ==
    IF i > Len(sections) THEN [marker |-> NoneTok, i |-> i]
    ELSE LET candidate == sections[i]
         IN IF candidate # NoneTok /\ Strip(candidate) # <<>> /\ REGEX_ARTICLE_search(candidate)
            THEN [marker |-> candidate, i |-> i + 1]
            ELSE FindMarker(sections, i + 1)

\* 3b: the content up to the next marker; REGEX_ARTICLE.search(None) raises
RECURSIVE CollectContent(_, _, _)
CollectContent(sections, j, parts) ==
    IF j > Len(sections) THEN [raised |-> FALSE, parts |-> parts, j |-> j]
    ELSE LET candidate == sections[j]
         IN IF candidate = NoneTok THEN [raised |-> TRUE, parts |-> parts, j |-> j]
            ELSE IF REGEX_ARTICLE_search(candidate) THEN [raised |-> FALSE, parts |-> parts, j |-> j]
            ELSE CollectContent(sections, j + 1,
                    IF Strip(candidate) # <<>> THEN Append(parts, candidate) ELSE parts)

RECURSIVE ArticleLoop(_, _, _, _)
ArticleLoop(sections, i, section_data, current_chapter) ==
    IF i > Len(sections) THEN [raised |-> FALSE, sections |-> section_data]
    ELSE LET fm == FindMarker(sections, i)
         IN IF fm.marker = NoneTok THEN [raised |-> FALSE, sections |-> section_data]
            ELSE LET cc == CollectContent(sections, fm.i, <<>>)
                     article_content == JoinNl(cc.parts)
                     in_marker == REGEX_TITLE_OR_CHAPTER_search(fm.marker)
                     in_content == REGEX_TITLE_OR_CHAPTER_search(article_content)
                     chapter == IF in_marker # <<>> THEN in_marker
                                ELSE IF in_content # <<>> THEN in_content
                                ELSE current_chapter
                     number == FirstNumber(fm.marker)
                     full_section_text == Strip(fm.marker) \o <<"nl">> \o Strip(article_content)
                 IN IF cc.raised THEN [raised |-> TRUE, sections |-> section_data]
                    ELSE IF Strip(article_content) = <<>>
                    THEN ArticleLoop(sections, cc.j, section_data, current_chapter)
                    ELSE ArticleLoop(sections, cc.j,
                           Append(section_data,
                             [text |-> Strip(full_section_text),
                              metadata |-> [chunk_type |-> "LEGAL_ARTICLE",
                                            chapter |-> chapter,
                                            article |-> IF number # <<>> THEN ArticleName(number)
                                                        ELSE Strip(fm.marker),
                                            page_start |-> "N/A"]]),
                           chapter)

\* the same analysis, with the preamble's text stripped
analyze_law_structure_stripped(document_text) ==
    LET full_text == JoinNl(document_text)
        sections == re_split(full_text)
        hasPreamble == Strip(sections[1]) # <<>>
        preamble == [text |-> Strip(sections[1]),
                     metadata |-> [chunk_type |-> "PREAMBULO",
                                   chapter |-> UnidentifiedChapter,
                                   article |-> <<"N/A">>,
                                   page_start |-> "1"]]
    IN ArticleLoop(sections,
                   IF hasPreamble THEN 2 ELSE 1,
                   IF hasPreamble THEN << preamble >> ELSE <<>>,
                   UnidentifiedChapter)

\* document_text: the Loader's text units; the result is the section list,
\* or raised when the scan hits a None token.
analyze_law_structure(document_text) ==
    LET full_text == JoinNl(document_text)
        sections == re_split(full_text)
        hasPreamble == Strip(sections[1]) # <<>>
        preamble == [text |-> sections[1],
                     metadata |-> [chunk_type |-> "PREAMBULO",
                                   chapter |-> UnidentifiedChapter,
                                   article |-> <<"N/A">>,
                                   page_start |-> "1"]]
    IN ArticleLoop(sections,
                   IF hasPreamble THEN 2 ELSE 1,
                   IF hasPreamble THEN << preamble >> ELSE <<>>,
                   UnidentifiedChapter)


\* ------------------------------------------------------------ file names
\* A name is the sequence of its dot-separated parts: "a.txt" is <<"a","txt">>.
Lower(part) == CASE part = "TXT" -> "txt" [] part = "PDF" -> "pdf" [] OTHER -> part

\* Path(name) has a suffix when the last dot of the name is neither its
\* first nor its last character: "a.txt" has one, "a", "a." and ".txt" do not.
HasSuffix(name) ==
    /\ Len(name) > 1
    /\ name[Len(name)] # ""
    /\ ~(Len(name) = 2 /\ name[1] = "")

\* Path(name).suffix.lower()
Suffix(name) == IF HasSuffix(name) THEN Lower(name[Len(name)]) ELSE ""

\* Path(name).stem
Stem(name) == IF HasSuffix(name) THEN SubSeq(name, 1, Len(name) - 1) ELSE name

\* ------------------------------------------------------------ the Drive
DRIVE_MIME_TYPES == [folder |-> "application/vnd.google-apps.folder",
                     document |-> "application/vnd.google-apps.document"]

GOOGLE_NATIVE_MIME_TYPES == {"application/vnd.google-apps.document",
                             "application/vnd.google-apps.spreadsheet",
                             "application/vnd.google-apps.presentation"}

pageSize == 100

PlainFile == [name |-> <<"a", "txt">>, mimeType |-> "text/plain", trashed |-> FALSE,
              content |-> <<"txt", "nl", "txt">>, pages |-> <<>>]

EmptyFile == [name |-> <<"e", "txt">>, mimeType |-> "text/plain", trashed |-> FALSE,
              content |-> <<>>, pages |-> <<>>]

SubFolder == [name |-> <<"sub">>, mimeType |-> DRIVE_MIME_TYPES.folder, trashed |-> FALSE,
              content |-> <<>>, pages |-> <<>>]

TrashedFile == [name |-> <<"a", "txt">>, mimeType |-> "text/plain", trashed |-> TRUE,
                content |-> <<"txt">>, pages |-> <<>>]

BinFile == [name |-> <<"x", "bin">>, mimeType |-> "application/octet-stream", trashed |-> FALSE,
            content |-> <<"txt">>, pages |-> <<>>]

RootFolder == [name |-> <<"pasta">>, mimeType |-> DRIVE_MIME_TYPES.folder, trashed |-> FALSE,
               content |-> <<>>, pages |-> <<>>]

ChildKinds == {PlainFile, EmptyFile, SubFolder, TrashedFile, BinFile}

SingleKinds == {PlainFile, EmptyFile, BinFile}

SeqsUpTo(S, n) == UNION {[1..k -> S] : k \in 0..n}

Drives == {[root |-> RootFolder, children |-> cs] : cs \in SeqsUpTo(ChildKinds, MaxFiles)}
          \cup {[root |-> k, children |-> <<>>] : k \in SingleKinds}

\* ---------------------------------------------------------- credentials
\* tokens.json entry of the requesting user: absent, or an access token
\* that is valid or expired, with or without a refresh token.
CredStates == {"absent", "valid_rt", "valid_nort", "expired_rt", "expired_nort"}

\* The outcomes of get_drive_service: the service, None, or an exception
\* from creds.refresh; a successful refresh is saved.
get_drive_service(c) ==
    CASE c = "absent" -> {[res |-> "none", cred |-> c]}
      [] c \in {"valid_rt", "valid_nort"} -> {[res |-> "service", cred |-> c]}
      [] c = "expired_rt" -> {[res |-> "service", cred |-> "valid_rt"],
                              [res |-> "raise", cred |-> c]}
      [] OTHER -> {[res |-> "none", cred |-> c]}

\* ------------------------------------------------------------- listing
\* The server side of files().list for q = "'<id>' in parents and
\* trashed=false": the entries of the children that are not trashed.
RECURSIVE QueryFrom(_, _)
QueryFrom(children, i) ==
    IF i > Len(children) THEN <<>>
    ELSE (IF children[i].trashed THEN <<>>
          ELSE << [id |-> i, name |-> children[i].name, mimeType |-> children[i].mimeType] >>)
         \o QueryFrom(children, i + 1)

DriveQuery(children) == QueryFrom(children, 1)

Min(a, b) == IF a < b THEN a ELSE b

\* The pagination loop: page_token is the index of the next entry (0: no
\* further page); the call for page failAt raises and the except returns [].
RECURSIVE ListLoop(_, _, _, _, _, _)
ListLoop(matches, page_token, pageLen, pageNo, failAt, files_to_process) ==
    IF pageNo = failAt THEN <<>>
    ELSE LET last == Min(page_token + pageLen - 1, Len(matches))
             files == SubSeq(matches, page_token, last)
             nextPageToken == IF last < Len(matches) THEN last + 1 ELSE 0
         IN IF nextPageToken = 0 THEN files_to_process \o files
            ELSE ListLoop(matches, nextPageToken, pageLen, pageNo + 1, failAt,
                          files_to_process \o files)

list_files_in_folder(children, pageLen, failAt) ==
    ListLoop(DriveQuery(children), 1, pageLen, 1, failAt, <<>>)

NumPages(children, pageLen) ==
    LET n == Len(DriveQuery(children))
    IN IF n = 0 THEN 1 ELSE (n + pageLen - 1) \div pageLen


\* -------------------------------------------------------------- loader
CONTENT_MISSING_TEXTUAL == <<"CONTENT_MISSING_TEXTUAL">>

MIN_CHARS_THRESHOLD == 100

MIN_TEXT_FOR_HEURISTIC == 100

LOADER_MAPPING == {"pdf", "docx", "txt", "odt"}

LoaderOf == [pdf |-> "load_pdf_file", docx |-> "load_docx_file",
             txt |-> "load_txt_file", odt |-> "load_odt_file"]

ErrorPlaceholder == <<"ERRO DE PROCESSAMENTO">>

RECURSIVE SumNative(_, _)
SumNative(pages, n) ==
    IF n = 0 THEN 0 ELSE SumNative(pages, n - 1) + Len(Strip(pages[n].native))

\* What can go wrong inside an extractor: nothing, the detection of native
\* text, the pre-OCR pass as a whole, the extraction of the text, or the
\* rendering of the page images.
LoaderFaults == {"none", "detect", "ocr", "extract", "images"}

\* a page is [native |-> text of extract_text, ocr |-> text of the OCR pass];
\* an exception in the detection is caught there and answers False
has_sufficient_native_text(pages, fault) ==
    fault # "detect" /\ SumNative(pages, Min(3, Len(pages))) >= MIN_CHARS_THRESHOLD

\* one text per page; an exception outside the page loop gives the empty list
orchestrate_pre_ocr(pages, fault) ==
    IF fault = "ocr" THEN <<>>
    ELSE [i \in 1..Len(pages) |->
            IF Strip(pages[i].ocr) # <<>> THEN Strip(pages[i].ocr) ELSE CONTENT_MISSING_TEXTUAL]

\* the same extractor, without the try around the rendering of the images
load_pdf_file_partial(pages, fault) ==
    LET ocr_corrected_text_list == IF has_sufficient_native_text(pages, fault) THEN <<>>
                                   ELSE orchestrate_pre_ocr(pages, fault)
        native == [i \in 1..Len(pages) |->
                     IF Strip(pages[i].native) # <<>> THEN pages[i].native
                     ELSE CONTENT_MISSING_TEXTUAL]
    IN IF ocr_corrected_text_list = <<>> /\ fault = "extract"
       THEN [text |-> << ErrorPlaceholder >>, images |-> <<>>]
       ELSE [text |-> IF ocr_corrected_text_list # <<>> THEN ocr_corrected_text_list ELSE native,
             images |-> IF fault = "images" THEN <<>> ELSE [i \in 1..Len(pages) |-> "image"]]

\* lines 83-123: the texts of the pre-OCR pass when the PDF has too little
\* native text and the pass gave any, otherwise the native texts; then the
\* images; any exception on the way gives the placeholder and no image
load_pdf_file(pages, fault) ==
    LET ocr_corrected_text_list == IF has_sufficient_native_text(pages, fault) THEN <<>>
                                   ELSE orchestrate_pre_ocr(pages, fault)
        native == [i \in 1..Len(pages) |->
                     IF Strip(pages[i].native) # <<>> THEN pages[i].native
                     ELSE CONTENT_MISSING_TEXTUAL]
    IN IF (ocr_corrected_text_list = <<>> /\ fault = "extract") \/ fault = "images"
       THEN [text |-> << ErrorPlaceholder >>, images |-> <<>>]
       ELSE [text |-> IF ocr_corrected_text_list # <<>> THEN ocr_corrected_text_list ELSE native,
             images |-> [i \in 1..Len(pages) |-> "image"]]

\* load_docx_file, load_txt_file, load_odt_file: the whole text as one unit,
\* the placeholder when reading the file raises
load_text_file(content, fault) ==
    IF fault # "extract" THEN [text |-> << content >>, images |-> <<>>]
    ELSE [text |-> << ErrorPlaceholder >>, images |-> <<>>]

\* the same resolution, with the suffix of the downloaded file first
ResolvedExtension_physical_first(file_path, original_filename) ==
    IF Suffix(file_path) # "" THEN Suffix(file_path) ELSE Suffix(original_filename)

\* The resolved extension: the suffix of the original name, that of the
\* downloaded file when the original name has none ("" when both have none).
ResolvedExtension(file_path, original_filename) ==
    IF Suffix(original_filename) # "" THEN Suffix(original_filename) ELSE Suffix(file_path)

handle_document_load_from_path(file_path, original_filename, file, fault) ==
    LET file_extension == ResolvedExtension(file_path, original_filename)
        loaded == IF file_extension = "pdf" THEN load_pdf_file(file.pages, fault)
                  ELSE load_text_file(file.content, fault)
    IN IF file_extension = "" \/ file_extension \notin LOADER_MAPPING
       THEN [raised |-> TRUE, text |-> <<>>, images |-> <<>>, file_type |-> file_extension,
             loader_function |-> "none"]
       ELSE [raised |-> FALSE, text |-> loaded.text, images |-> loaded.images,
             file_type |-> file_extension,
             loader_function |-> LoaderOf[file_extension]]

\* ------------------------------------------------------------- refiner
\* core/llm_clients.py: the getter hands out a client, or fails to obtain
\* one and raises, as the other client getters do when nothing is configured
get_multimodal_llm_client == {"client", "no_client"}

\* a call of describe_visual_element: the service answers, generate_content
\* raises (also on a client that is None), or no client was obtained
LlmOutcomes == {"ok", "call_fails"} \cup (get_multimodal_llm_client \ {"client"})

\* the same heuristic, with a unit of exactly the threshold counted as short
NeedsLlm_inclusive(text_page) ==
    text_page = CONTENT_MISSING_TEXTUAL \/ Len(Strip(text_page)) <= MIN_TEXT_FOR_HEURISTIC

NeedsLlm(text_page) ==
    text_page = CONTENT_MISSING_TEXTUAL \/ Len(Strip(text_page)) < MIN_TEXT_FOR_HEURISTIC

describe_visual_element(page_number, llm) ==
    IF llm = "ok" THEN <<"description">> ELSE <<"[ERRO LLM]", ToString(page_number)>>

\* the same loop, keeping every unit
SimpleItems_all(document_text, file_type, i) ==
    [k \in 1..Len(document_text) |->
        [page_number |-> k, content_type |-> "TEXT", text |-> document_text[k],
         metadata_source |-> <<file_type, "_LOADER">>]]

RECURSIVE SimpleItems(_, _, _)
SimpleItems(document_text, file_type, i) ==
    IF i > Len(document_text) THEN <<>>
    ELSE (IF Strip(document_text[i]) # <<>> \/ i = 1
          THEN << [page_number |-> i, content_type |-> "TEXT", text |-> document_text[i],
                   metadata_source |-> <<file_type, "_LOADER">>] >>
          ELSE <<>>)
         \o SimpleItems(document_text, file_type, i + 1)

\* llm[i] is the outcome of the multimodal call for page i: the description,
\* an exception of generate_content (caught at line 78), or an exception of
\* get_multimodal_llm_client (line 50, before the try), which leaves the call.
refine_extracted_content(document_text, document_images, file_type, llm) ==
    LET num_pages == Min(Len(document_text), Len(document_images))
        item(i) == IF NeedsLlm(document_text[i])
                   THEN [page_number |-> i, content_type |-> "VISUAL_DESCRIPTION",
                         text |-> describe_visual_element(i, llm[i]),
                         metadata_source |-> <<"LLM_MULTIMODAL">>]
                   ELSE [page_number |-> i, content_type |-> "TEXT",
                         text |-> document_text[i],
                         metadata_source |-> <<"PDFPLUMBER">>]
    IN IF file_type # "pdf" \/ document_images = <<>>
       THEN [raised |-> FALSE, items |-> SimpleItems(document_text, file_type, 1)]
       ELSE IF \E i \in 1..num_pages : NeedsLlm(document_text[i]) /\ llm[i] = "no_client"
       THEN [raised |-> TRUE, items |-> <<>>]
       ELSE [raised |-> FALSE, items |-> [i \in 1..num_pages |-> item(i)]]

\* --------------------------------------------------- chunking pipeline
MaxChunkLen == 750

Get(dict, key, default) == IF key \in DOMAIN dict THEN dict[key] ELSE default

\* ingestion.py builds one flat dictionary per section for the pipeline
SectionForChunking(section) ==
    [page_number |-> Get(section.metadata, "page_start", "1"),
     content_type |-> Get(section.metadata, "chunk_type", "TEXT_BLOCK"),
     text |-> section.text,
     metadata_source |-> "ANALYSIS_STRUCTURED",
     article |-> Get(section.metadata, "article", <<"None">>),
     chapter |-> Get(section.metadata, "chapter", <<"None">>)]

simple_text_splitter(text, max_len) ==
    [k \in 1..((Len(text) + max_len - 1) \div max_len) |->
        SubSeq(text, (k - 1) * max_len + 1, Min(k * max_len, Len(text)))]

SectionChunks(section, document_id, original_filename) ==
    LET sub_chunks == simple_text_splitter(section.text, MaxChunkLen)
        inherited_metadata == section.metadata
    IN [k \in 1..Len(sub_chunks) |->
          [content |-> sub_chunks[k],
           metadata |-> [id |-> document_id,
                         filename |-> original_filename,
                         source |-> "Google Drive",
                         chunk_index |-> k - 1,
                         total_chunks_in_section |-> Len(sub_chunks),
                         article |-> Get(inherited_metadata, "article", <<"N/A">>),
                         chapter |-> Get(inherited_metadata, "chapter", <<"N/A">>),
                         content_type |-> Get(inherited_metadata, "content_type", "TEXT"),
                         page_number |-> Get(inherited_metadata, "page_number", "N/A")]]]

RECURSIVE AllChunks(_, _, _)
AllChunks(sections, document_id, original_filename) ==
    IF sections = <<>> THEN <<>>
    ELSE SectionChunks(Head(sections), document_id, original_filename)
         \o AllChunks(Tail(sections), document_id, original_filename)

\* section['metadata'] raises KeyError when a section has no such key
ChunkingRaises(sections) == \E i \in 1..Len(sections) : "metadata" \notin DOMAIN sections[i]

\* the embedding service answers with one vector per input, in order
Embeddings(chunk_contents) == [i \in 1..Len(chunk_contents) |-> <<"vector", i>>]

\* records that pair chunk i with the vector of the chunk before it
RecordsToInsert_shifted(all_final_chunks, embeddings, document_id, original_filename) ==
    [i \in 1..Len(all_final_chunks) |->
        [content |-> all_final_chunks[i].content,
         embedding |-> embeddings[IF i = 1 THEN Len(all_final_chunks) ELSE i - 1],
         document_id |-> document_id,
         filename |-> original_filename,
         metadata |-> all_final_chunks[i].metadata]]

RecordsToInsert(all_final_chunks, embeddings, document_id, original_filename) ==
    [i \in 1..Len(all_final_chunks) |->
        [content |-> all_final_chunks[i].content,
         embedding |-> embeddings[i],
         document_id |-> document_id,
         filename |-> original_filename,
         metadata |-> all_final_chunks[i].metadata]]

\* response.data of the insert is the inserted rows; response.count is None
InsertSucceeded(ins, records_to_insert) == ins = "ok" /\ records_to_insert # <<>>


\* -------------------------------------------------------------- state
VARIABLES cred, drive, coordPc, metadata, files_to_process, jobs, results, workspaces, call

vars == << cred, drive, coordPc, metadata, files_to_process, jobs, results, workspaces, call >>

\* no service function is being called on its own
NoCall == [fn |-> "none"]

request == [resource_id |-> 0, user_id |-> "user", original_filename |-> <<"pasta_de_contratos">>]

\* the Drive file with the given id: 0 is the requested resource
FileOf(d, id) == IF id = 0 THEN d.root ELSE d.children[id]

Stages == <<"DOWNLOADING", "LOADING", "ANALYZING", "REFINING", "CHUNKING_EMBEDDING", "PERSISTING">>

\* the stage order with refinement ahead of the structural analysis
NextStage_refine_first(at) ==
    CASE at = "PENDING" -> "DOWNLOADING"
      [] at = "DOWNLOADING" -> "LOADING"
      [] at = "LOADING" -> "REFINING"
      [] at = "REFINING" -> "ANALYZING"
      [] at = "ANALYZING" -> "CHUNKING_EMBEDDING"
      [] at = "CHUNKING_EMBEDDING" -> "PERSISTING"
      [] OTHER -> "DONE"

\* the stage that follows in _process_single_file_for_ingestion
NextStage(at) ==
    CASE at = "PENDING" -> "DOWNLOADING"
      [] at = "DOWNLOADING" -> "LOADING"
      [] at = "LOADING" -> "ANALYZING"
      [] at = "ANALYZING" -> "REFINING"
      [] at = "REFINING" -> "CHUNKING_EMBEDDING"
      [] at = "CHUNKING_EMBEDDING" -> "PERSISTING"
      [] OTHER -> "DONE"

NewJob(file) ==
    [file_id |-> file.id, filename |-> file.name, stage |-> "PENDING", result |-> "none",
     fault |-> "", cause |-> "", invoked |-> <<>>, calls |-> {}, forced |-> FALSE,
     download_path |-> NoneTok, document_content |-> <<>>, document_images |-> <<>>,
     file_type |-> "", structured_sections |-> <<>>, sections |-> <<>>, records |-> <<>>]

\* a task list that keeps only the first file
MakeTasks_first(files) == [i \in 1..Min(1, Len(files)) |-> NewJob(files[i])]

\* tasks = [_process_single_file_for_ingestion(...) for file in files_to_process]
MakeTasks(files) == [i \in 1..Len(files) |-> NewJob(files[i])]

\* the coroutine has returned: its local variables are gone
Returned(job, result) ==
    [job EXCEPT !.stage = "DONE", !.result = result,
                !.download_path = NoneTok, !.document_content = <<>>,
                !.document_images = <<>>, !.file_type = "",
                !.structured_sections = <<>>, !.sections = <<>>, !.records = <<>>]

\* a job that records the failure of a stage and goes on to the next one
AfterStage_swallow(job, at, failed) ==
    IF NextStage(at) = "DONE" THEN Returned(job, IF failed THEN "fail" ELSE "ok")
    ELSE [job EXCEPT !.stage = NextStage(at), !.fault = IF failed THEN at ELSE @]

\* the try/except/finally of the job: a failed stage returns False, the
\* last stage returns the pipeline's result, any other stage goes on
AfterStage(job, at, failed) ==
    IF failed THEN Returned([job EXCEPT !.fault = at], "fail")
    ELSE IF NextStage(at) = "DONE" THEN Returned(job, "ok")
    ELSE [job EXCEPT !.stage = NextStage(at)]

\* a job that returns without removing its directory
finally_cleanup_leak(ws, j) == ws

\* finally: temp_dir_obj.cleanup()
finally_cleanup(ws, j) == ws \ {j}

FinishStage(j, job, at, failed) ==
    LET after == AfterStage(job, at, failed)
    IN /\ jobs' = [jobs EXCEPT ![j] = after]
       /\ workspaces' = IF after.stage = "DONE" THEN finally_cleanup(workspaces, j)
                        ELSE workspaces

Invoke(job, at, services) ==
    [job EXCEPT !.invoked = Append(@, at), !.calls = @ \cup services]

\* a sequential loop that stops at the first failed file
CanStart_sequential(js, j) ==
    js[j].stage = "PENDING" /\ \A k \in 1..(j - 1) : js[k].result = "ok"

\* asyncio.gather starts every task; a task runs once it is scheduled
CanStart(js, j) == js[j].stage = "PENDING"

\* a wait that returns with the first finished task
GatherDone_any(js) == \E j \in DOMAIN js : js[j].stage = "DONE"

\* asyncio.gather returns when every task has returned
GatherDone(js) == \A j \in DOMAIN js : js[j].stage = "DONE"

\* results[file['name']] = ... over zip(files_to_process, processing_results)
RECURSIVE OutcomeMap(_, _, _, _)
OutcomeMap(files, js, i, acc) ==
    IF i > Len(files) THEN acc
    ELSE LET name == files[i].name
             outcome == IF js[i].result = "ok" THEN "SUCESSO" ELSE "FALHA"
         IN OutcomeMap(files, js, i + 1,
                       [n \in (DOMAIN acc) \cup {name} |-> IF n = name THEN outcome ELSE acc[n]])

Init ==
    /\ cred \in CredStates
    /\ drive \in Drives
    /\ coordPc = "idle"
    /\ metadata = "unfetched"
    /\ files_to_process = <<>>
    /\ jobs = <<>>
    /\ results = <<>>
    /\ workspaces = {}
    /\ call = NoCall

\* ------------------------------------------------------------- actions
\* The access token of the requesting user expires. Once the jobs run, a
\* Drive call that finds no usable token is one of Download's failures.
TokenExpires ==
    /\ coordPc \in {"idle", "scheduled", "listing"}
    /\ cred \in {"valid_rt", "valid_nort"}
    /\ cred' = IF cred = "valid_rt" THEN "expired_rt" ELSE "expired_nort"
    /\ UNCHANGED << drive, coordPc, metadata, files_to_process, jobs, results, workspaces, call >>

\* an endpoint that schedules the task whatever get_drive_service answered
AfterAuthCheck_always(res) == "scheduled"

\* POST /ingestion/upload: 401 without a service, otherwise add_task
AfterAuthCheck(res) ==
    CASE res = "service" -> "scheduled"
      [] res = "none" -> "rejected"
      [] OTHER -> "error500"

upload_resource_for_ingestion ==
    /\ coordPc = "idle"
    /\ \E g \in get_drive_service(cred) :
         /\ cred' = g.cred
         /\ coordPc' = AfterAuthCheck(g.res)
    /\ UNCHANGED << drive, metadata, files_to_process, jobs, results, workspaces, call >>

\* a coordinator that takes a resource without metadata for a single file
AfterMetadata_fallback(meta, d) ==
    IF meta = "ok" /\ d.root.mimeType = DRIVE_MIME_TYPES.folder
    THEN [pc |-> "listing", files |-> <<>>]
    ELSE [pc |-> "gathering",
          files |-> << [id |-> request.resource_id,
                        name |-> IF meta = "ok" THEN d.root.name
                                 ELSE request.original_filename] >>]

\* what the coordinator does with the metadata: return, list the folder,
\* or start the one job of a single file
AfterMetadata(meta, d) ==
    IF meta = "none" THEN [pc |-> "ended", files |-> <<>>]
    ELSE IF d.root.mimeType = DRIVE_MIME_TYPES.folder THEN [pc |-> "listing", files |-> <<>>]
    ELSE [pc |-> "gathering", files |-> << [id |-> request.resource_id, name |-> d.root.name] >>]

GetMetadataOutcomes == {"ok", "404", "403", "error"}

\* get_resource_metadata, then lines 177-199 (and 201-211 for a single file)
GetResourceMetadata ==
    /\ coordPc = "scheduled"
    /\ \E g \in get_drive_service(cred), api \in GetMetadataOutcomes :
         /\ cred' = g.cred
         /\ IF g.res = "raise"
            THEN /\ coordPc' = "crashed"
                 /\ UNCHANGED << metadata, files_to_process, jobs >>
            ELSE LET meta == IF g.res = "service" /\ api = "ok" THEN "ok" ELSE "none"
                     next == AfterMetadata(meta, drive)
                 IN /\ metadata' = meta
                    /\ coordPc' = next.pc
                    /\ files_to_process' = next.files
                    /\ jobs' = MakeTasks(next.files)
    /\ UNCHANGED << drive, results, workspaces, call >>

\* list_files_in_folder, then lines 189-211
ListFolder ==
    /\ coordPc = "listing"
    /\ \E g \in get_drive_service(cred), pageLen \in 1..Min(MaxPage, pageSize) :
         \E failAt \in 0..NumPages(drive.children, pageLen) :
         /\ cred' = g.cred
         /\ IF g.res = "raise"
            THEN /\ coordPc' = "crashed"
                 /\ UNCHANGED << files_to_process, jobs >>
            ELSE LET files == IF g.res = "service"
                              THEN list_files_in_folder(drive.children, pageLen, failAt)
                              ELSE <<>>
                 IN /\ files_to_process' = files
                    /\ jobs' = MakeTasks(files)
                    /\ coordPc' = IF files = <<>> THEN "ended" ELSE "gathering"
    /\ UNCHANGED << drive, metadata, results, workspaces, call >>

\* lines 55-62: the task starts and creates its TemporaryDirectory
JobStart(j) ==
    /\ j \in DOMAIN jobs
    /\ CanStart(jobs, j)
    /\ jobs' = [jobs EXCEPT ![j].stage = NextStage("PENDING")]
    /\ workspaces' = workspaces \cup {j}
    /\ UNCHANGED << cred, drive, coordPc, metadata, files_to_process, results, call >>

\* filename.lower().endswith('.pdf')
EndsWithPdf(filename) == Len(filename) >= 2 /\ Lower(filename[Len(filename)]) = "pdf"

\* the path written by download_drive_file, None on any failure
download_drive_file(res, api, file, filename) ==
    IF res # "service" \/ api # "ok" \/ file.mimeType = DRIVE_MIME_TYPES.folder THEN NoneTok
    ELSE IF file.mimeType \in GOOGLE_NATIVE_MIME_TYPES /\ ~EndsWithPdf(filename)
    THEN Append(Stem(filename), "pdf")
    ELSE filename

DownloadOutcomes == {"ok", "get_fails", "media_fails"}

\* Etapa 1: download
Download(j) ==
    /\ j \in DOMAIN jobs
    /\ jobs[j].stage = "DOWNLOADING"
    /\ \E g \in get_drive_service(cred), api \in DownloadOutcomes :
         LET path == download_drive_file(g.res, api, FileOf(drive, jobs[j].file_id),
                                         jobs[j].filename)
             job == [Invoke(jobs[j], "DOWNLOADING", {"download"}) EXCEPT
                        !.download_path = path,
                        !.cause = IF path = NoneTok THEN "download" ELSE @]
         IN /\ cred' = g.cred
            /\ FinishStage(j, job, "DOWNLOADING", path = NoneTok)
    /\ UNCHANGED << drive, coordPc, metadata, files_to_process, results, call >>

\* Etapa 2: handle_document_load_from_path
Load(j) ==
    /\ j \in DOMAIN jobs
    /\ jobs[j].stage = "LOADING"
    /\ \E fault \in LoaderFaults :
         LET loaded == handle_document_load_from_path(jobs[j].download_path, jobs[j].filename,
                                                      FileOf(drive, jobs[j].file_id), fault)
             job == [Invoke(jobs[j], "LOADING", {}) EXCEPT
                        !.document_content = loaded.text,
                        !.document_images = loaded.images,
                        !.file_type = loaded.file_type,
                        !.cause = IF loaded.raised THEN "unsupported" ELSE @]
         IN FinishStage(j, job, "LOADING", loaded.raised)
    /\ UNCHANGED << cred, drive, coordPc, metadata, files_to_process, results, call >>

\* Etapa 3: analyze_law_structure(file_type, document_content)
Analyze(j) ==
    /\ j \in DOMAIN jobs
    /\ jobs[j].stage = "ANALYZING"
    /\ LET analysed == analyze_law_structure(jobs[j].document_content)
           job == [Invoke(jobs[j], "ANALYZING", {}) EXCEPT
                      !.structured_sections = analysed.sections,
                      !.cause = IF analysed.raised THEN "analysis" ELSE @]
       IN FinishStage(j, job, "ANALYZING", analysed.raised)
    /\ UNCHANGED << cred, drive, coordPc, metadata, files_to_process, results, call >>

\* Etapa 4: refine_extracted_content, whose result is not used, then the
\* sections for chunking are built from the structural sections
Refine(j) ==
    /\ j \in DOMAIN jobs
    /\ jobs[j].stage = "REFINING"
    /\ \E llm \in LlmOutcomes :
         LET refined == refine_extracted_content(jobs[j].document_content,
                                                 jobs[j].document_images,
                                                 jobs[j].file_type,
                                                 [i \in DOMAIN jobs[j].document_content |-> llm])
             job == [Invoke(jobs[j], "REFINING", {}) EXCEPT
                        !.sections = [i \in 1..Len(jobs[j].structured_sections) |->
                                        SectionForChunking(jobs[j].structured_sections[i])],
                        !.cause = IF refined.raised THEN "llm_client" ELSE @]
         IN FinishStage(j, job, "REFINING", refined.raised)
    /\ UNCHANGED << cred, drive, coordPc, metadata, files_to_process, results, call >>

EmbedOutcomes == {"ok", "raise", "no_clients"}

\* Etapa 5, run_ingestion_pipeline up to the embeddings: forced is an
\* exception injected into the chunking loop
ChunkEmbed(j) ==
    /\ j \in DOMAIN jobs
    /\ jobs[j].stage = "CHUNKING_EMBEDDING"
    /\ \E forced \in BOOLEAN, emb \in EmbedOutcomes :
         LET chunkingFailed == forced \/ ChunkingRaises(jobs[j].sections)
             all_final_chunks == AllChunks(jobs[j].sections, jobs[j].file_id, jobs[j].filename)
             chunk_contents == [i \in 1..Len(all_final_chunks) |-> all_final_chunks[i].content]
             embedded == emb # "no_clients" /\ ~chunkingFailed
             records == IF embedded /\ emb = "ok"
                        THEN RecordsToInsert(all_final_chunks, Embeddings(chunk_contents),
                                             jobs[j].file_id, jobs[j].filename)
                        ELSE <<>>
             job == [Invoke(jobs[j], "CHUNKING_EMBEDDING", IF embedded THEN {"embed"} ELSE {})
                       EXCEPT !.forced = forced /\ emb # "no_clients", !.records = records,
                              !.cause = CASE emb = "no_clients" -> "no_clients"
                                          [] forced -> "forced"
                                          [] chunkingFailed -> "chunking"
                                          [] emb = "raise" -> "embedding"
                                          [] OTHER -> @]
         IN FinishStage(j, job, "CHUNKING_EMBEDDING",
                        emb # "ok" \/ chunkingFailed)
    /\ UNCHANGED << cred, drive, coordPc, metadata, files_to_process, results, call >>

InsertOutcomes == {"ok", "raise"}

\* run_ingestion_pipeline, the batch insert
Persist(j) ==
    /\ j \in DOMAIN jobs
    /\ jobs[j].stage = "PERSISTING"
    /\ \E ins \in InsertOutcomes :
         LET failed == ~InsertSucceeded(ins, jobs[j].records)
             job == [Invoke(jobs[j], "PERSISTING", {"insert"}) EXCEPT
                        !.cause = CASE ins = "raise" -> "insert_raise"
                                    [] failed -> "insert_nodata"
                                    [] OTHER -> @]
         IN FinishStage(j, job, "PERSISTING", failed)
    /\ UNCHANGED << cred, drive, coordPc, metadata, files_to_process, results, call >>

\* lines 211-219: gather has returned, the summary is built and printed
Summarise ==
    /\ coordPc = "gathering"
    /\ GatherDone(jobs)
    /\ results' = OutcomeMap(files_to_process, jobs, 1, <<>>)
    /\ coordPc' = "reported"
    /\ UNCHANGED << cred, drive, metadata, files_to_process, jobs, workspaces, call >>

JobStep(j) ==
    \/ JobStart(j)
    \/ Download(j)
    \/ Load(j)
    \/ Analyze(j)
    \/ Refine(j)
    \/ ChunkEmbed(j)
    \/ Persist(j)

Next ==
    \/ TokenExpires
    \/ upload_resource_for_ingestion
    \/ GetResourceMetadata
    \/ ListFolder
    \/ \E j \in 1..MaxFiles : JobStep(j)
    \/ Summarise

Spec == Init /\ [][Next]_vars

\* A request made with a stored access token that has no refresh token:
\* the endpoint accepts it unless the token has expired by then.
InitFair == Init /\ cred = "valid_nort"

\* the event loop keeps running a task for as long as one is ready
FairSpec == InitFair /\ [][Next]_vars /\ WF_vars(\E j \in 1..MaxFiles : JobStep(j))


\* ------------------------------------------------------------- claims
IsFolder(file) == file.mimeType = DRIVE_MIME_TYPES.folder

IsPrefix(s, t) == Len(s) <= Len(t) /\ SubSeq(t, 1, Len(s)) = s

AllJobsDone == \A j \in DOMAIN jobs : jobs[j].stage = "DONE"

UniqueName(j) == \A k \in DOMAIN jobs : jobs[k].filename = jobs[j].filename => k = j

NoBackgroundWork ==
    metadata = "unfetched" /\ files_to_process = <<>> /\ jobs = <<>> /\ workspaces = {}

NoFileJob == jobs = <<>> /\ workspaces = {} /\ DOMAIN results = {}

\* C1: the temporary directory of a job exists only while the job runs: it
\* is gone when the job is DONE, on every exit path, and none is left once
\* the request has been reported.
C1_WorkspaceReleased ==
    /\ \A j \in DOMAIN jobs : j \in workspaces => jobs[j].stage \notin {"PENDING", "DONE"}
    /\ workspaces \subseteq DOMAIN jobs
    /\ coordPc = "reported" => workspaces = {}

C1_Witness ==
    /\ coordPc = "reported"
    /\ \E j, k \in DOMAIN jobs :
         /\ jobs[j].cause = "download"
         /\ jobs[k].cause \in {"unsupported", "chunking", "embedding", "insert_raise"}
         /\ workspaces = {}

\* C2: once the jobs of a request have been started, every one of them
\* reaches DONE, whatever fails in the others.
C2_EveryJobCompletes == (coordPc = "gathering") ~> AllJobsDone

C2_Witness ==
    \E j, k \in DOMAIN jobs :
        /\ j # k
        /\ jobs[j].fault # ""
        /\ jobs[k].stage = "DONE"
        /\ jobs[k].invoked # <<>>
        /\ Len(jobs[k].invoked) > Len(jobs[j].invoked)

\* C3 (as stated): in a folder whose files all have different names, every
\* file that meets no service failure and no unsupported format is reported
\* FALHA if a chunking exception was forced for it and SUCESSO otherwise,
\* and its directory is removed.
C3_ForcedFailuresOnly ==
    (coordPc = "reported" /\ IsFolder(drive.root)) =>
        \A j \in DOMAIN jobs :
            (UniqueName(j) /\ jobs[j].cause \in {"", "forced", "chunking", "insert_nodata"}) =>
                /\ results[jobs[j].filename] = IF jobs[j].forced THEN "FALHA" ELSE "SUCESSO"
                /\ j \notin workspaces

\* C4 (as stated): the stages of a job run in the order DOWNLOADING,
\* LOADING, REFINING, ANALYZING, CHUNKING_EMBEDDING, PERSISTING.
C4_RefineBeforeAnalyze ==
    \A j \in DOMAIN jobs :
        IsPrefix(jobs[j].invoked,
                 <<"DOWNLOADING", "LOADING", "REFINING", "ANALYZING",
                   "CHUNKING_EMBEDDING", "PERSISTING">>)

\* C4 (amended): the stages of a job run one after another in the order
\* DOWNLOADING, LOADING, ANALYZING, REFINING, CHUNKING_EMBEDDING,
\* PERSISTING: the structural analysis precedes the refinement.
C4_StageOrder ==
    \A j \in DOMAIN jobs :
        /\ IsPrefix(jobs[j].invoked, Stages)
        /\ jobs[j].stage \notin {"PENDING", "DONE"} =>
              jobs[j].stage = Stages[Len(jobs[j].invoked) + 1]

C4_Witness == \E j \in DOMAIN jobs : jobs[j].invoked = Stages

\* C5: a job in which a stage has failed is DONE with a failure, the failed
\* stage is the last one it invoked, no later service was called, and the
\* summary reports FALHA for a file exactly when its own job failed.
C5_FailureEndsJob ==
    /\ \A j \in DOMAIN jobs :
         jobs[j].fault # "" =>
            /\ jobs[j].stage = "DONE"
            /\ jobs[j].result = "fail"
            /\ jobs[j].invoked # <<>>
            /\ jobs[j].invoked[Len(jobs[j].invoked)] = jobs[j].fault
            /\ jobs[j].cause \in {"download", "unsupported"} => jobs[j].calls \subseteq {"download"}
            /\ jobs[j].cause \in {"forced", "chunking", "no_clients"} => "embed" \notin jobs[j].calls
            /\ jobs[j].fault # "PERSISTING" => "insert" \notin jobs[j].calls
    /\ coordPc = "reported" =>
         \A j \in DOMAIN jobs :
            UniqueName(j) => (results[jobs[j].filename] = "FALHA" <=> jobs[j].fault # "")

C5_Witness ==
    /\ coordPc = "reported"
    /\ \E j, k \in DOMAIN jobs :
         /\ jobs[j].cause = "unsupported"
         /\ jobs[k].cause = "embedding"
         /\ results[jobs[j].filename] = "FALHA"

\* C6: a request of a user whose stored credential is absent, or expired
\* without a refresh token, is never scheduled, and a request that was
\* refused has no metadata fetch, no file list, no job and no directory.
C6_NoWorkWithoutSession ==
    /\ [][(coordPc = "idle" /\ cred \in {"absent", "expired_nort"}) =>
             coordPc' \in {"idle", "rejected"}]_vars
    /\ [](coordPc \in {"rejected", "error500"} => NoBackgroundWork)

C6_Witness == coordPc = "rejected" /\ cred = "expired_nort" /\ NoBackgroundWork

\* C7: the jobs are the listed files, one job per entry in order, with the
\* entry's id and name; a folder gives all the entries of all the pages, any
\* other resource gives one job with the requested id and the metadata name.
C7_OneJobPerFile ==
    coordPc \in {"gathering", "reported"} =>
        /\ Len(jobs) = Len(files_to_process)
        /\ \A i \in DOMAIN jobs :
              /\ jobs[i].file_id = files_to_process[i].id
              /\ jobs[i].filename = files_to_process[i].name
        /\ IF IsFolder(drive.root)
           THEN /\ files_to_process = DriveQuery(drive.children)
                /\ \A i \in DOMAIN jobs : jobs[i].filename = drive.children[jobs[i].file_id].name
           ELSE /\ Len(jobs) = 1
                /\ jobs[1].file_id = request.resource_id
                /\ jobs[1].filename = drive.root.name

C7_Witness ==
    /\ coordPc = "gathering"
    /\ IsFolder(drive.root)
    /\ Len(jobs) = 2
    /\ jobs[2].file_id = 2

\* the direct children that are neither folders nor trashed
RECURSIVE EligibleFrom(_, _)
EligibleFrom(children, i) ==
    IF i > Len(children) THEN <<>>
    ELSE (IF children[i].trashed \/ IsFolder(children[i]) THEN <<>>
          ELSE << [id |-> i, name |-> children[i].name, mimeType |-> children[i].mimeType] >>)
         \o EligibleFrom(children, i + 1)

\* C8 (as stated): the files listed for a folder are exactly its children
\* that are neither folders nor trashed, and no job is for a subfolder.
C8_NoSubfolderListed ==
    (coordPc \in {"gathering", "reported"} /\ IsFolder(drive.root)) =>
        /\ files_to_process = EligibleFrom(drive.children, 1)
        /\ \A j \in DOMAIN jobs : ~IsFolder(FileOf(drive, jobs[j].file_id))

\* C9: when the metadata could not be fetched, or the folder listing came
\* back empty, the request has ended and there is no job, no directory and
\* no summary; jobs only ever exist for a non-empty file list.
C9_NothingToProcess ==
    /\ metadata = "none" => (coordPc = "ended" /\ NoFileJob)
    /\ (metadata = "ok" /\ coordPc \notin {"listing", "crashed"} /\ files_to_process = <<>>) =>
          (coordPc = "ended" /\ NoFileJob)
    /\ coordPc \in {"ended", "crashed"} => NoFileJob

C9_Witness ==
    /\ coordPc = "ended"
    /\ metadata = "ok"
    /\ Len(drive.children) = 2
    /\ NoFileJob

\* C10: the outcome map is built only when every job of the request is
\* DONE, and it exists in no state in which a job is still running.
C10_SummaryAfterAllDone ==
    /\ coordPc = "reported" => AllJobsDone
    /\ DOMAIN results # {} => (coordPc = "reported" /\ AllJobsDone)

C10_Witness ==
    /\ coordPc = "reported"
    /\ Len(jobs) = 2
    /\ DOMAIN results # {}


\* ------------------------------------- run_ingestion_pipeline on its own
MaxSections == 2

Vectors == {"v1", "v2"}

\* a text one character longer than a chunk
LongText == [i \in 1..(MaxChunkLen + 1) |-> "txt"]

\* sections as analyze_law_structure builds them (lines 32-35 and 110-118)
PreambleSection ==
    [text |-> <<"txt", "nl">>,
     metadata |-> [chunk_type |-> "PREAMBULO", chapter |-> UnidentifiedChapter,
                   article |-> <<"N/A">>, page_start |-> "1"]]

ArticleSection ==
    [text |-> LongText,
     metadata |-> [chunk_type |-> "LEGAL_ARTICLE", chapter |-> <<"chap", "sp", "txt">>,
                   article |-> ArticleName(<<"1">>), page_start |-> "N/A"]]

SectionKinds == {PreambleSection, ArticleSection}

\* the caller of the pipeline: ingestion.py passes the flat dictionaries it
\* builds, a direct caller passes the sections with their 'metadata'
Callers == {"ingestion", "direct"}

SectionsPassed(structured_sections, caller) ==
    IF caller = "ingestion"
    THEN [i \in 1..Len(structured_sections) |-> SectionForChunking(structured_sections[i])]
    ELSE structured_sections

\* one insert call per record
InsertBatches_per_record(records_to_insert) ==
    [i \in 1..Len(records_to_insert) |-> << records_to_insert[i] >>]

\* supabase.table(TABLE_NAME).insert(records_to_insert).execute()
InsertBatches(records_to_insert) == << records_to_insert >>

\* The whole function: clients says whether both clients are initialised,
\* forced is an exception injected into the chunking loop, embed is the
\* embedding service's answer and ins the database's.
run_ingestion_pipeline(sections, document_id, original_filename, clients, forced, embed, ins) ==
    LET all_final_chunks == AllChunks(sections, document_id, original_filename)
        chunk_contents == [i \in 1..Len(all_final_chunks) |-> all_final_chunks[i].content]
        records_to_insert == RecordsToInsert(all_final_chunks, embed.data,
                                             document_id, original_filename)
        nothing == [result |-> FALSE, failed_at |-> "", chunks |-> <<>>,
                    embed_input |-> <<>>, embed_calls |-> 0, vectors |-> <<>>,
                    inserts |-> <<>>]
    IN IF ~clients THEN [nothing EXCEPT !.failed_at = "clients"]
       ELSE IF forced \/ ChunkingRaises(sections) THEN [nothing EXCEPT !.failed_at = "chunking"]
       ELSE IF embed.raises
       THEN [nothing EXCEPT !.failed_at = "embedding", !.chunks = all_final_chunks,
                            !.embed_input = chunk_contents, !.embed_calls = 1]
       ELSE [result |-> InsertSucceeded(ins, records_to_insert),
             failed_at |-> IF InsertSucceeded(ins, records_to_insert) THEN "" ELSE "persistence",
             chunks |-> all_final_chunks,
             embed_input |-> chunk_contents,
             embed_calls |-> 1,
             vectors |-> embed.data,
             inserts |-> InsertBatches(records_to_insert)]

\* the number of chunks the call hands to the embedding service
NumChunks(sections) ==
    IF ChunkingRaises(sections) THEN 0 ELSE Len(AllChunks(sections, "doc", <<"a", "txt">>))

coordVars == << cred, drive, coordPc, metadata, files_to_process, jobs, results, workspaces >>

\* the application with no request in progress
Idle ==
    /\ cred = "absent"
    /\ drive = [root |-> RootFolder, children |-> <<>>]
    /\ coordPc = "idle"
    /\ metadata = "unfetched"
    /\ files_to_process = <<>>
    /\ jobs = <<>>
    /\ results = <<>>
    /\ workspaces = {}

\* what the Analyzer returns for the documents of the coordinator's files
AnalyzerOutputs ==
    {analyze_law_structure(<< text >>).sections :
        text \in {<<>>, <<"txt", "nl">>, <<"kw", "sp", "1", "dot", "sp", "txt">>}}

\* ingestion.py calls the pipeline with what the Analyzer returned
StructuredInputs(caller) ==
    IF caller = "ingestion" THEN AnalyzerOutputs
    ELSE SeqsUpTo(SectionKinds, MaxSections)

PipeInit ==
    /\ Idle
    /\ \E caller \in Callers, clients \in BOOLEAN :
         \E structured \in StructuredInputs(caller) :
         call = [fn |-> "run_ingestion_pipeline", done |-> FALSE,
                 structured_sections |-> structured, caller |-> caller,
                 sections |-> SectionsPassed(structured, caller), clients |-> clients]

RunPipeline ==
    /\ call.fn = "run_ingestion_pipeline"
    /\ ~call.done
    /\ \E forced \in BOOLEAN, raises \in BOOLEAN, ins \in InsertOutcomes :
         \E data \in [1..NumChunks(call.sections) -> Vectors] :
            call' = [fn |-> "run_ingestion_pipeline", done |-> TRUE,
                     structured_sections |-> call.structured_sections,
                     caller |-> call.caller, sections |-> call.sections,
                     clients |-> call.clients, forced |-> forced,
                     embed_raises |-> raises, ins |-> ins,
                     out |-> run_ingestion_pipeline(call.sections, "doc", <<"a", "txt">>,
                                                    call.clients, forced,
                                                    [raises |-> raises, data |-> data], ins)]
    /\ UNCHANGED coordVars

PipeSpec == PipeInit /\ [][RunPipeline]_vars

PipelineDone == call.fn = "run_ingestion_pipeline" /\ call.done

RECURSIVE Concat(_)
Concat(seqs) == IF seqs = <<>> THEN <<>> ELSE Head(seqs) \o Concat(Tail(seqs))

\* C11: a call of the pipeline issues at most one insert; an insert holds
\* the whole document (the contents of its records, in order, are the texts
\* of all the sections); no insert is issued when the clients are missing or
\* chunking or embedding failed; and the call returns False in each of these
\* cases and when the insert fails.
C11_WholeDocumentOrNothing ==
    PipelineDone =>
        /\ Len(call.out.inserts) <= 1
        /\ call.out.inserts # <<>> =>
              /\ call.out.failed_at \in {"", "persistence"}
              /\ Concat([i \in 1..Len(call.out.inserts[1]) |-> call.out.inserts[1][i].content])
                    = Concat([i \in 1..Len(call.sections) |-> call.sections[i].text])
              /\ \A i \in 1..Len(call.out.inserts[1]) :
                    call.out.inserts[1][i].content # <<>>
        /\ (~call.clients \/ call.forced \/ call.out.failed_at \in {"chunking", "embedding"}) =>
              (call.out.inserts = <<>> /\ call.out.result = FALSE)
        /\ call.ins = "raise" => call.out.result = FALSE
        /\ call.out.result = TRUE => (call.out.failed_at = "" /\ Len(call.out.inserts) = 1)

C11_Witness ==
    /\ PipelineDone
    /\ call.out.result = TRUE
    /\ Len(call.sections) = 2
    /\ Len(call.out.inserts[1]) >= 3

\* C12: in every call that reaches the insert, there are as many records
\* as chunks, and record i holds the content of chunk i (the i-th text sent
\* to the embedding service) and the i-th vector of the service's answer.
C12_IndexAligned ==
    (PipelineDone /\ call.out.inserts # <<>>) =>
        LET records == call.out.inserts[1]
        IN /\ Len(records) = Len(call.out.chunks)
           /\ Len(records) = Len(call.out.vectors)
           /\ \A i \in 1..Len(records) :
                 /\ records[i].content = call.out.chunks[i].content
                 /\ records[i].content = call.out.embed_input[i]
                 /\ records[i].embedding = call.out.vectors[i]

C12_Witness ==
    /\ PipelineDone
    /\ Len(call.out.inserts) = 1
    /\ Len(call.out.inserts[1]) >= 2
    /\ \E i, k \in 1..Len(call.out.inserts[1]) :
          /\ call.out.inserts[1][i].embedding # call.out.inserts[1][k].embedding
          /\ call.out.inserts[1][i].content # call.out.inserts[1][k].content


\* C13 (as stated): end to end, when the clients are there, nothing is
\* forced and the services answer, every section the Analyzer returned has
\* a persisted record that carries the section's article and chapter
\* together with the document-level and position-level keys.
C13_MetadataInherited ==
    (PipelineDone /\ call.clients /\ ~call.forced /\ ~call.embed_raises /\ call.ins = "ok") =>
        \A i \in 1..Len(call.structured_sections) :
            \E b \in 1..Len(call.out.inserts) : \E k \in 1..Len(call.out.inserts[b]) :
                LET m == call.out.inserts[b][k].metadata
                IN /\ m.article = call.structured_sections[i].metadata.article
                   /\ m.chapter = call.structured_sections[i].metadata.chapter
                   /\ m.id = "doc" /\ m.filename = <<"a", "txt">> /\ m.source = "Google Drive"
                   /\ m.chunk_index \in 0..(m.total_chunks_in_section - 1)


\* ------------------------------------- analyze_law_structure on its own
MaxLines == 3

\* The lines a document is made of: plain text, "Art. 1. text", "Artigo 2
\* text", a bare "Art. 1", a chapter line, an empty line, a line with the
\* keyword in the middle, and 500 characters of plain text.
LineKinds ==
    { <<"txt">>,
      TextOf(500),
      <<"kw", "sp", "1", "dot", "sp", "txt">>,
      <<"kw", "sp", "2", "sp", "txt">>,
      <<"kw", "sp", "1">>,
      <<"chap", "sp", "txt">>,
      <<>>,
      <<"txt", "sp", "kw", "sp", "1">> }

AnalyzerInit ==
    /\ Idle
    /\ \E document_text \in SeqsUpTo(LineKinds, MaxLines) :
         call = [fn |-> "analyze_law_structure", done |-> FALSE,
                 document_text |-> document_text, full_text |-> JoinNl(document_text)]

AnalyzeCall ==
    /\ call.fn = "analyze_law_structure"
    /\ ~call.done
    /\ call' = [fn |-> "analyze_law_structure", done |-> TRUE,
                document_text |-> call.document_text, full_text |-> call.full_text,
                out |-> analyze_law_structure(call.document_text)]
    /\ UNCHANGED coordVars

AnalyzerSpec == AnalyzerInit /\ [][AnalyzeCall]_vars

AnalyzerDone == call.fn = "analyze_law_structure" /\ call.done

\* the characters of a text that are not white space
NonBlank(s) == SelectSeq(s, LAMBDA c : c \notin WS)

SectionTexts(section_data) == [i \in 1..Len(section_data) |-> section_data[i].text]

\* C14 (as stated): an input with no article marker gives exactly one
\* section, of type TEXT_BLOCK, whose text is the entire input buffer.
C14_TextBlockFallback ==
    (AnalyzerDone /\ ~REGEX_ARTICLE_search(call.full_text)) =>
        /\ ~call.out.raised
        /\ Len(call.out.sections) = 1
        /\ call.out.sections[1].metadata.chunk_type = "TEXT_BLOCK"
        /\ call.out.sections[1].text = call.full_text

\* C14: an input with no article marker and at least one non-blank
\* character gives exactly one section, of type PREAMBULO, whose text is the
\* entire input buffer, white space at both ends included; an input with no
\* article marker and nothing but white space gives no section.
C14_PreambleFallback ==
    (AnalyzerDone /\ ~REGEX_ARTICLE_search(call.full_text)) =>
        /\ ~call.out.raised
        /\ IF Strip(call.full_text) # <<>>
           THEN /\ Len(call.out.sections) = 1
                /\ call.out.sections[1].metadata.chunk_type = "PREAMBULO"
                /\ call.out.sections[1].text = call.full_text
           ELSE call.out.sections = <<>>

C14_Witness ==
    /\ AnalyzerDone
    /\ ~REGEX_ARTICLE_search(call.full_text)
    /\ Strip(call.full_text) # call.full_text
    /\ Len(call.out.sections) = 1
    /\ call.out.sections[1].text = call.full_text

\* C15 (as stated): when the article pattern matches the input at least
\* once, the output is not empty, and every article section names the number
\* of the marker its text starts with.
C15_MarkersKept ==
    (AnalyzerDone /\ REGEX_ARTICLE_search(call.full_text)) =>
        /\ ~call.out.raised
        /\ call.out.sections # <<>>
        /\ \A i \in 1..Len(call.out.sections) :
              call.out.sections[i].metadata.chunk_type = "LEGAL_ARTICLE" =>
                  /\ FirstNumber(call.out.sections[i].text) # <<>>
                  /\ call.out.sections[i].metadata.article =
                        ArticleName(FirstNumber(call.out.sections[i].text))

\* a preamble line followed by article lines that each have content
ArticleLines == { <<"kw", "sp", "1", "dot", "sp", "txt">>, <<"kw", "sp", "2", "sp", "txt">> }

PreambleThenArticles(document_text) ==
    /\ Len(document_text) >= 2
    /\ document_text[1] = <<"txt">>
    /\ \A i \in 2..Len(document_text) : document_text[i] \in ArticleLines

\* C16 (as stated): a non-empty preamble followed by k article markers with
\* content gives k+1 sections in input order: the PREAMBULO section with the
\* text before the first marker, the sentinel chapter and article "N/A",
\* then one LEGAL_ARTICLE section per marker, named "Artigo n" and starting
\* with the marker.
C16_PreambleAndArticles ==
    (AnalyzerDone /\ PreambleThenArticles(call.document_text)) =>
        /\ ~call.out.raised
        /\ Len(call.out.sections) = Len(call.document_text)
        /\ call.out.sections[1].metadata.chunk_type = "PREAMBULO"
        /\ Strip(call.out.sections[1].text) = call.document_text[1]
        /\ call.out.sections[1].metadata.chapter = UnidentifiedChapter
        /\ call.out.sections[1].metadata.article = <<"N/A">>
        /\ \A i \in 2..Len(call.document_text) :
              /\ call.out.sections[i].metadata.chunk_type = "LEGAL_ARTICLE"
              /\ call.out.sections[i].metadata.article =
                    ArticleName(FirstNumber(call.document_text[i]))
              /\ SubSeq(call.out.sections[i].text, 1, 3) = SubSeq(call.document_text[i], 1, 3)

\* C17 (as stated): the texts of the returned sections, concatenated in
\* order, are the input buffer up to white space: nothing that is not white
\* space is missing or duplicated.
C17_RoundTrip ==
    AnalyzerDone =>
        /\ ~call.out.raised
        /\ NonBlank(Concat(SectionTexts(call.out.sections))) = NonBlank(call.full_text)

C19_ResidueKept ==
    (/\ AnalyzerDone
     /\ call.document_text # <<>>
     /\ call.document_text[Len(call.document_text)] = <<"kw", "sp", "1">>) =>
        /\ ~call.out.raised
        /\ \E i \in 1..Len(call.out.sections) :
              /\ call.out.sections[i].metadata.chunk_type = "RESIDUO"
              /\ FirstNumber(call.out.sections[i].text) = <<"1">>

\* ------------------------------ handle_document_load_from_path on its own
\* The names of the file in the Drive: with each registered suffix, in
\* upper case, with a suffix that has no handler, with no suffix, ending
\* with a dot, starting with a dot, and with two dots.
OriginalNames ==
    { <<"a", "txt">>, <<"a", "pdf">>, <<"a", "docx">>, <<"a", "odt">>,
      <<"a", "PDF">>, <<"a", "TXT">>, <<"a", "gdoc">>, <<"a">>,
      <<"a", "">>, <<"", "txt">>, <<"a", "v1", "txt">>, <<"a", "txt", "bin">> }

\* The names of the downloaded file in the temporary directory.
DownloadNames == { <<"a", "pdf">>, <<"a", "txt">>, <<"a", "PDF">>, <<"a", "bin">>, <<"a">> }

PdfPages == << [native |-> <<"txt">>, ocr |-> <<"txt">>] >>

\* a page with enough native text for the whole document
NativePages == << [native |-> TextOf(MIN_CHARS_THRESHOLD), ocr |-> <<>>] >>

LoadedFiles == { [content |-> <<"txt", "nl", "txt">>, pages |-> PdfPages],
                 [content |-> <<"txt">>, pages |-> NativePages],
                 [content |-> <<>>, pages |-> <<>>] }

LoaderInit ==
    /\ Idle
    /\ \E original_filename \in OriginalNames, file_path \in DownloadNames,
          file \in LoadedFiles, fault \in LoaderFaults :
         call = [fn |-> "handle_document_load_from_path", done |-> FALSE,
                 file_path |-> file_path, original_filename |-> original_filename,
                 file |-> file, fault |-> fault]

LoadCall ==
    /\ call.fn = "handle_document_load_from_path"
    /\ ~call.done
    /\ call' = [fn |-> "handle_document_load_from_path", done |-> TRUE,
                file_path |-> call.file_path, original_filename |-> call.original_filename,
                file |-> call.file, fault |-> call.fault,
                out |-> handle_document_load_from_path(call.file_path, call.original_filename,
                                                       call.file, call.fault)]
    /\ UNCHANGED coordVars

LoaderSpec == LoaderInit /\ [][LoadCall]_vars

LoaderDone == call.fn = "handle_document_load_from_path" /\ call.done

\* C20: the extension the Loader works with is the lower-cased suffix of
\* original_filename, and the lower-cased suffix of the downloaded file only
\* when original_filename has none; the call raises the unsupported-format
\* error exactly when that extension is none of .pdf, .docx, .txt, .odt, and
\* then no loader function has run; otherwise the loader function registered
\* for that extension has run.
C20_ExtensionResolution ==
    LoaderDone =>
        LET logical == Suffix(call.original_filename)
            physical == Suffix(call.file_path)
            resolved == IF logical # "" THEN logical ELSE physical
        IN /\ call.out.file_type = resolved
           /\ call.out.raised <=> resolved \notin {"pdf", "docx", "txt", "odt"}
           /\ call.out.raised => call.out.loader_function = "none"
           /\ ~call.out.raised =>
                 call.out.loader_function =
                    CASE resolved = "pdf" -> "load_pdf_file"
                      [] resolved = "docx" -> "load_docx_file"
                      [] resolved = "txt" -> "load_txt_file"
                      [] resolved = "odt" -> "load_odt_file"

\* the original name has no suffix, so the suffix of the downloaded file
\* picks the loader function
C20_Witness ==
    /\ LoaderDone
    /\ Suffix(call.original_filename) = ""
    /\ Suffix(call.file_path) = "pdf"
    /\ ~call.out.raised
    /\ call.out.loader_function = "load_pdf_file"

\* ----------------------------------- refine_extracted_content on its own
MaxUnits == 2

\* The text units: exactly MIN_TEXT_FOR_HEURISTIC characters, one character
\* less with white space around it, the marker of a page without text, and
\* a blank unit.
UnitKinds ==
    { TextOf(MIN_TEXT_FOR_HEURISTIC),
      <<"sp">> \o TextOf(MIN_TEXT_FOR_HEURISTIC - 1) \o <<"sp", "nl">>,
      CONTENT_MISSING_TEXTUAL,
      <<"sp">> }

RefinerFileTypes == {"pdf", "txt"}

RefinerInit ==
    /\ Idle
    /\ \E document_text \in SeqsUpTo(UnitKinds, MaxUnits), n \in 0..MaxUnits,
          file_type \in RefinerFileTypes, llm \in [1..MaxUnits -> LlmOutcomes] :
         call = [fn |-> "refine_extracted_content", done |-> FALSE,
                 document_text |-> document_text,
                 document_images |-> [i \in 1..n |-> "image"],
                 file_type |-> file_type, llm |-> llm]

RefineCall ==
    /\ call.fn = "refine_extracted_content"
    /\ ~call.done
    /\ call' = [fn |-> "refine_extracted_content", done |-> TRUE,
                document_text |-> call.document_text,
                document_images |-> call.document_images,
                file_type |-> call.file_type, llm |-> call.llm,
                out |-> refine_extracted_content(call.document_text, call.document_images,
                                                 call.file_type, call.llm)]
    /\ UNCHANGED coordVars

RefinerSpec == RefinerInit /\ [][RefineCall]_vars

RefinerDone == call.fn = "refine_extracted_content" /\ call.done

\* the input takes the branch of line 147: not a PDF, or no image
SimplePath == call.file_type # "pdf" \/ call.document_images = <<>>

\* C22 (as stated): for a non-PDF input or an input without images there is
\* exactly one TEXT item per text unit: item i has position i and the text
\* of unit i, and there are as many items as units.
C22_OneItemPerUnit ==
    (RefinerDone /\ SimplePath) =>
        /\ ~call.out.raised
        /\ Len(call.out.items) = Len(call.document_text)
        /\ \A i \in 1..Len(call.out.items) :
              /\ call.out.items[i].content_type = "TEXT"
              /\ call.out.items[i].page_number = i
              /\ call.out.items[i].text = call.document_text[i]

\* C22: for a non-PDF input or an input without images there is exactly one
\* TEXT item for the first text unit and for every later unit that is not
\* blank, and none for a blank unit after the first; the items are in the
\* order of the units, each with its unit's text unchanged and the unit's
\* 1-based index in the input as position.
C22_OneItemPerKeptUnit ==
    (RefinerDone /\ SimplePath) =>
        LET kept == {i \in 1..Len(call.document_text) :
                        i = 1 \/ Strip(call.document_text[i]) # <<>>}
            items == call.out.items
        IN /\ ~call.out.raised
           /\ Len(items) = Cardinality(kept)
           /\ \A i \in kept : \E k \in 1..Len(items) : items[k].page_number = i
           /\ \A k \in 1..Len(items) :
                 /\ items[k].page_number \in kept
                 /\ items[k].content_type = "TEXT"
                 /\ items[k].text = call.document_text[items[k].page_number]
                 /\ k > 1 => items[k - 1].page_number < items[k].page_number

C22_Witness ==
    /\ RefinerDone
    /\ SimplePath
    /\ Len(call.document_text) = 2
    /\ Strip(call.document_text[1]) = <<>>
    /\ Strip(call.document_text[2]) = <<>>
    /\ Len(call.out.items) = 1
    /\ call.out.items[1].text = call.document_text[1]

\* C23: a call on the PDF path that returns, returns as many items as the
\* shorter of the texts and the images, item i at position i; item i is a
\* VISUAL_DESCRIPTION exactly when unit i is the missing-content marker or
\* has fewer than 100 characters once trimmed, and is otherwise a TEXT item
\* with the text of unit i unchanged.
C23_PdfRouting ==
    (RefinerDone /\ ~SimplePath /\ ~call.out.raised) =>
        LET items == call.out.items
        IN /\ Len(items) = Min(Len(call.document_text), Len(call.document_images))
           /\ \A i \in 1..Len(items) :
                 /\ items[i].page_number = i
                 /\ items[i].content_type \in {"VISUAL_DESCRIPTION", "TEXT"}
                 /\ items[i].content_type = "VISUAL_DESCRIPTION" <=>
                       (\/ call.document_text[i] = <<"CONTENT_MISSING_TEXTUAL">>
                        \/ Len(Strip(call.document_text[i])) < 100)
                 /\ items[i].content_type = "TEXT" => items[i].text = call.document_text[i]
                 /\ items[i].content_type = "VISUAL_DESCRIPTION" =>
                       items[i].text # call.document_text[i]

\* fewer images than texts, and a unit of exactly 100 characters kept native
C23_Witness ==
    /\ RefinerDone
    /\ ~SimplePath
    /\ ~call.out.raised
    /\ Len(call.document_images) < Len(call.document_text)
    /\ Len(call.out.items) = Len(call.document_images)
    /\ Len(Strip(call.document_text[1])) = 100
    /\ call.out.items[1].content_type = "TEXT"

\* C24 (as stated): on the PDF path the call does not raise and returns an
\* item for every paired unit; the item of a unit whose multimodal call
\* failed, the client included, holds the error placeholder naming the
\* unit, and the items of the other units are what they are without the
\* failure.
C24_FailSoft ==
    (RefinerDone /\ ~SimplePath) =>
        LET num_pages == Min(Len(call.document_text), Len(call.document_images))
            all_ok == refine_extracted_content(call.document_text, call.document_images,
                                               call.file_type, [i \in 1..MaxUnits |-> "ok"])
        IN /\ ~call.out.raised
           /\ Len(call.out.items) = num_pages
           /\ \A i \in 1..num_pages :
                 IF NeedsLlm(call.document_text[i]) /\ call.llm[i] # "ok"
                 THEN call.out.items[i].text = <<"[ERRO LLM]", ToString(i)>>
                 ELSE call.out.items[i] = all_ok.items[i]

\* C21: no fault inside an extractor makes the Loader raise: the call raises
\* only for an extension without handler. When the reading of a DOCX, TXT
\* or ODT file fails, or the text extraction or the image rendering of a PDF
\* fails, the result is exactly one placeholder text and no image; a failed
\* detection of native text or a failed pre-OCR pass is absorbed earlier and
\* the PDF is still extracted.
C21_ExtractorsTolerateFailure ==
    LoaderDone =>
        LET pages == call.file.pages
            is_pdf == call.out.file_type = "pdf"
            native_runs == \/ pages = <<>>
                           \/ /\ call.fault # "detect"
                              /\ SumNative(pages, Min(3, Len(pages))) >= 100
            failed == IF is_pdf
                      THEN call.fault = "images" \/ (call.fault = "extract" /\ native_runs)
                      ELSE call.fault = "extract"
        IN /\ call.out.raised => call.out.file_type \notin {"pdf", "docx", "txt", "odt"}
           /\ (~call.out.raised /\ failed) =>
                 /\ call.out.text = << ErrorPlaceholder >>
                 /\ call.out.images = <<>>
           /\ (~call.out.raised /\ ~failed) =>
                 /\ ErrorPlaceholder \notin {call.out.text[i] : i \in 1..Len(call.out.text)}
                 /\ is_pdf => /\ Len(call.out.text) = Len(pages)
                              /\ Len(call.out.images) = Len(pages)
                 /\ ~is_pdf => call.out.text = << call.file.content >>

\* the text of a PDF was extracted, the rendering of its images failed
C21_Witness ==
    /\ LoaderDone
    /\ call.out.loader_function = "load_pdf_file"
    /\ call.file.pages # <<>>
    /\ call.fault = "images"
    /\ call.out.text = << ErrorPlaceholder >>
    /\ call.out.images = <<>>

\* ------------------------- _process_single_file_for_ingestion on its own
MaxPdfPages == 2

\* The pages of a PDF: with native text, scanned with a long OCR text,
\* scanned with a short OCR text, scanned with no OCR text.
PageKinds ==
    { [native |-> TextOf(MIN_CHARS_THRESHOLD), ocr |-> <<>>],
      [native |-> <<>>, ocr |-> TextOf(MIN_TEXT_FOR_HEURISTIC)],
      [native |-> <<>>, ocr |-> <<"txt">>],
      [native |-> <<>>, ocr |-> <<>>] }

\* the display names of a Google document
NativeNames ==
    { <<"Report">>, <<"Report v1", "2">>, <<"Report", "docx">>,
      <<"Report", "pdf">>, <<"Report", "PDF">> }

\* The files a job is started for: Google documents (their pages are those
\* of the PDF export), PDF files, and a text file.
JobFiles ==
    {[name |-> n, mimeType |-> DRIVE_MIME_TYPES.document, trashed |-> FALSE,
      content |-> <<>>, pages |-> pages] :
        n \in NativeNames, pages \in SeqsUpTo(PageKinds, MaxPdfPages)}
    \cup {[name |-> <<"b", "pdf">>, mimeType |-> "application/pdf", trashed |-> FALSE,
           content |-> <<>>, pages |-> pages] : pages \in SeqsUpTo(PageKinds, MaxPdfPages)}
    \cup {PlainFile}

\* the format of the file that the download wrote
DiskFormat(file) ==
    IF file.mimeType \in GOOGLE_NATIVE_MIME_TYPES THEN "pdf" ELSE Suffix(file.name)

\* lines 64-131 of the job, up to the sections handed to the pipeline. An
\* extractor that is given a file of another format fails to read it.
process_single_file(file, api, fault, llm) ==
    LET filename == file.name
        download_path == download_drive_file("service", api, file, filename)
        downloaded == download_path # NoneTok
        file_extension == ResolvedExtension(download_path, filename)
        reading == IF file_extension \in LOADER_MAPPING /\ file_extension # DiskFormat(file)
                   THEN "extract" ELSE fault
        loaded == IF downloaded
                  THEN handle_document_load_from_path(download_path, filename, file, reading)
                  ELSE [raised |-> TRUE, text |-> <<>>, images |-> <<>>, file_type |-> "",
                        loader_function |-> "none"]
        analysed == IF loaded.raised THEN [raised |-> TRUE, sections |-> <<>>]
                    ELSE analyze_law_structure(loaded.text)
        refined == IF analysed.raised THEN [raised |-> TRUE, items |-> <<>>]
                   ELSE refine_extracted_content(loaded.text, loaded.images, loaded.file_type,
                                                 [i \in DOMAIN loaded.text |-> llm])
        sections == IF refined.raised THEN <<>>
                    ELSE [i \in 1..Len(analysed.sections) |->
                             SectionForChunking(analysed.sections[i])]
    IN [download_path |-> download_path,
        loaded |-> loaded,
        structured_sections |-> analysed.sections,
        refined_data_list |-> refined.items,
        refined_sections_for_chunking |-> sections,
        failed_at |-> IF ~downloaded THEN "download"
                      ELSE IF loaded.raised THEN "load"
                      ELSE IF analysed.raised THEN "analyze"
                      ELSE IF refined.raised THEN "refine"
                      ELSE ""]

FileJobInit ==
    /\ Idle
    /\ \E file \in JobFiles, api \in DownloadOutcomes, fault \in LoaderFaults,
          llm \in LlmOutcomes :
         call = [fn |-> "_process_single_file_for_ingestion", done |-> FALSE,
                 file |-> file, api |-> api, fault |-> fault, llm |-> llm]

ProcessFile ==
    /\ call.fn = "_process_single_file_for_ingestion"
    /\ ~call.done
    /\ call' = [fn |-> "_process_single_file_for_ingestion", done |-> TRUE,
                file |-> call.file, api |-> call.api, fault |-> call.fault, llm |-> call.llm,
                out |-> process_single_file(call.file, call.api, call.fault, call.llm)]
    /\ UNCHANGED coordVars

FileJobSpec == FileJobInit /\ [][ProcessFile]_vars

FileJobDone == call.fn = "_process_single_file_for_ingestion" /\ call.done

\* sub occurs in s as a run of consecutive elements
IsInfix(sub, s) ==
    \E k \in 0..(Len(s) - Len(sub)) : SubSeq(s, k + 1, k + Len(sub)) = sub

\* C25 (as stated): when the sampled pages of a PDF hold no native text at
\* all and nothing fails in the Loader, every page of the document is
\* refined through the multimodal call, whatever the OCR pass returned.
C25_ScannedPdfGoesMultimodal ==
    (/\ FileJobDone
     /\ call.out.failed_at = ""
     /\ call.fault = "none"
     /\ call.out.loaded.loader_function = "load_pdf_file"
     /\ call.file.pages # <<>>
     /\ SumNative(call.file.pages, Min(3, Len(call.file.pages))) = 0) =>
        /\ Len(call.out.refined_data_list) = Len(call.file.pages)
        /\ \A i \in 1..Len(call.out.refined_data_list) :
              /\ call.out.refined_data_list[i].content_type = "VISUAL_DESCRIPTION"
              /\ call.out.refined_data_list[i].metadata_source = <<"LLM_MULTIMODAL">>

\* C29 (as stated): for every unit that the Refiner replaced by a multimodal
\* description or by an error placeholder, the sections handed to the
\* chunking stage hold the Refiner's text of that unit.
C29_RefinedTextIsChunked ==
    (FileJobDone /\ call.out.failed_at = "") =>
        \A i \in 1..Len(call.out.refined_data_list) :
            call.out.refined_data_list[i].content_type = "VISUAL_DESCRIPTION" =>
                \E k \in 1..Len(call.out.refined_sections_for_chunking) :
                    IsInfix(call.out.refined_data_list[i].text,
                            call.out.refined_sections_for_chunking[k].text)

\* C30 (as stated): a Google document whose download succeeded was exported
\* to a file with the suffix .pdf, and the Loader dispatches it to the PDF
\* extractor, whatever its display name.
C30_ExportedPdfUsesPdfExtractor ==
    (/\ FileJobDone
     /\ call.file.mimeType \in GOOGLE_NATIVE_MIME_TYPES
     /\ call.out.download_path # NoneTok) =>
        /\ Suffix(call.out.download_path) = "pdf"
        /\ ~call.out.loaded.raised
        /\ call.out.loaded.loader_function = "load_pdf_file"

\* C26 (as stated): when the first 500 characters of the text hold neither
\* a legal keyword nor an article line, the text is not segmented: the one
\* fallback section spans the whole buffer, even if article markers occur
\* later in the text.
C26_HeuristicGate ==
    (/\ AnalyzerDone
     /\ REGEX_ARTICLE_search(call.full_text)
     /\ \A p \in 1..Min(500, Len(call.full_text)) : call.full_text[p] # "kw") =>
        /\ ~call.out.raised
        /\ Len(call.out.sections) = 1
        /\ call.out.sections[1].text = call.full_text

\* the number of pieces of at most 750 characters that a text is cut into
PiecesOf(text) == (Len(text) + 749) \div 750

\* the number of pieces of the sections before section i
RECURSIVE PiecesBefore(_, _)
PiecesBefore(sections, i) ==
    IF i <= 1 THEN 0
    ELSE PiecesBefore(sections, i - 1) + PiecesOf(sections[i - 1].text)

\* C27 (as stated): when the clients are there and nothing is forced, the
\* chunks of a call are, section after section, the consecutive pieces of
\* at most 750 characters of the section's text: piece k of a section has
\* chunk_index k - 1 and total_chunks_in_section the number of pieces of
\* that section, the pieces put together are the section's text, and a
\* section with non-empty text has at least one chunk.
C27_ChunksCoverSections ==
    (PipelineDone /\ call.clients /\ ~call.forced) =>
        LET sections == call.sections
            chunks == call.out.chunks
        IN /\ Len(chunks) = PiecesBefore(sections, Len(sections) + 1)
           /\ \A i \in 1..Len(sections) :
                 LET first == PiecesBefore(sections, i)
                     n == PiecesOf(sections[i].text)
                 IN /\ sections[i].text # <<>> => n >= 1
                    /\ \A k \in 1..n :
                          /\ Len(chunks[first + k].content) <= 750
                          /\ chunks[first + k].metadata.chunk_index = k - 1
                          /\ chunks[first + k].metadata.total_chunks_in_section = n
                    /\ Concat([k \in 1..n |-> chunks[first + k].content]) = sections[i].text

\* C28 (as stated): when the summary of a request over a folder has been
\* built, the outcome map has as many entries as files were listed, and the
\* entry of every file job is that job's own result, also when two listed
\* files have the same name.
C28_OneOutcomePerJob ==
    (coordPc = "reported" /\ IsFolder(drive.root)) =>
        /\ Cardinality(DOMAIN results) = Len(files_to_process)
        /\ \A j \in DOMAIN jobs :
              /\ jobs[j].filename \in DOMAIN results
              /\ results[jobs[j].filename] = "FALHA" <=> jobs[j].result # "ok"


====
